---- MODULE Spec2Model ----
(***************************************************************************)
(* Model of udaplay's LongTermMemory (lib/long_memory.py): a store that    *)
(* registers memory fragments in one collection of a vector engine and     *)
(* searches them by owner, namespace and timestamp window.                 *)
(*                                                                         *)
(* Python values are modelled as follows.                                  *)
(*   Optional[T]       the empty set (None) or a singleton {v}             *)
(*   Dict              a record over Keys whose fields are Optional: an    *)
(*                     absent key is None                                  *)
(*   List              a sequence                                          *)
(* The vector engine (lib/vector_db.py) is modelled at its boundary.       *)
(***************************************************************************)
EXTENDS Integers, Sequences, FiniteSets, TLC

\* ------------------------------------------------------------------ bounds
MaxRecords == 2
MaxLimit == 2

\* ----------------------------------------------------------- input domains
Owners == {"A", "B"}
Namespaces == {"default", "work"}
Contents == {"hello", "bye"}
Timestamps == {0, 1, 2}
BoundValues == {0, 1, 3}
Tags == {"x"}
ResponseKeys == {"documents", "metadatas", "distances"}

\* ----------------------------------------------------------- Python values
None == {}

Some(v) == {v}

Val(o) == CHOOSE v \in o : TRUE

Min(a, b) == IF a <= b THEN a ELSE b

Keys == {"owner", "namespace", "timestamp", "tag"}

EmptyDict == [owner |-> None, namespace |-> None, timestamp |-> None, tag |-> None]

\* truthiness of an Optional[Dict]: None and {} are falsy
DictTruthy(d) == d # None /\ \E k \in Keys : Val(d)[k] # None

\* variant: a bound counts as set when it is not None
IntPresent(o) == o # None

\* truthiness of an Optional[int]: None and 0 are falsy
IntTruthy(o) == o # None /\ Val(o) # 0

\* dict.update(b) on a: the keys of b overwrite those of a
Update(a, b) == [k \in Keys |-> IF b[k] # None THEN b[k] ELSE a[k]]

\* dict.get(key) -> Optional
Get(d, k) == d[k]

\* dict.get(key, default)
GetDefault(d, k, default) == IF d[k] # None THEN Val(d[k]) ELSE default

MemoryFragment(content, owner, namespace, timestamp) ==
    [content |-> content, owner |-> owner, namespace |-> namespace, timestamp |-> timestamp]

TimestampFilter(greater_than_value, lower_than_value) ==
    [greater_than_value |-> greater_than_value, lower_than_value |-> lower_than_value]

MemorySearchResult(fragments, metadata) == [fragments |-> fragments, metadata |-> metadata]

Document(content, metadata) == [content |-> content, metadata |-> metadata]

\* ------------------------------------------------------- the vector engine
\* create_store(name, force): force destroys and recreates the collection
create_store(coll, force) == IF force THEN <<>> ELSE coll

\* collection.add(document): one new record appended
add(coll, doc) == Append(coll, doc)

\* collection.get(): one entry per record, carrying the record's metadata
get(coll) == [i \in 1..Len(coll) |-> [metadatas |-> <<coll[i].metadata>>]]

\* one condition {field: {op: value}} of a filter predicate
Cond(field, op, value) == [field |-> field, op |-> op, value |-> value]

Eval(meta, c) ==
    /\ meta[c.field] # None
    /\ CASE c.op = "$eq" -> Val(meta[c.field]) = c.value
         [] c.op = "$gt" -> Val(meta[c.field]) > c.value
         [] c.op = "$lt" -> Val(meta[c.field]) < c.value
         [] c.op = "$gte" -> Val(meta[c.field]) >= c.value
         [] c.op = "$lte" -> Val(meta[c.field]) <= c.value

\* {"$and": [...]}: every condition holds
Matches(meta, where) == \A i \in 1..Len(where["$and"]) : Eval(meta, where["$and"][i])

\* embedding distance between a query text and a stored content
Distance(q, c) == IF q = c THEN 0 ELSE 1

\* nearer first, ties in insertion order
Nearer(coll, q, i, j) ==
    \/ Distance(q, coll[i].content) < Distance(q, coll[j].content)
    \/ Distance(q, coll[i].content) = Distance(q, coll[j].content) /\ i <= j

RECURSIVE Rank(_, _, _)
Rank(coll, q, S) ==
    IF S = {} THEN <<>>
    ELSE LET m == CHOOSE i \in S : \A j \in S : Nearer(coll, q, i, j)
         IN <<m>> \o Rank(coll, q, S \ {m})

\* the records the engine selects: the n_results nearest that match the filter
Neighbours(coll, q, n_results, where) ==
    LET ranked == Rank(coll, q, {i \in 1..Len(coll) : Matches(coll[i].metadata, where)})
    IN SubSeq(ranked, 1, Min(n_results, Len(ranked)))

\* collection.query(query_texts=[q], n_results, where); a partial response
\* lacks the keys in missing
query(coll, q, n_results, where, missing) ==
    LET ids == Neighbours(coll, q, n_results, where)
        full == [documents |-> <<[i \in 1..Len(ids) |-> coll[ids[i]].content]>>,
                 metadatas |-> <<[i \in 1..Len(ids) |-> coll[ids[i]].metadata]>>,
                 distances |-> <<[i \in 1..Len(ids) |-> Distance(q, coll[ids[i]].content)]>>]
    IN [k \in ResponseKeys |-> IF k \in missing THEN None ELSE Some(full[k])]

\* ---------------------------------------------------------- LongTermMemory
\* variant: the collection is reopened without force
LongTermMemory_init_keep(coll) == create_store(coll, FALSE)

\* __init__: self.vector_store = db.create_store("long_term_memory", force=True)
LongTermMemory_init(coll) == create_store(coll, TRUE)

RECURSIVE Unique(_)
Unique(s) ==
    IF s = <<>> THEN <<>>
    ELSE LET front == Unique(SubSeq(s, 1, Len(s) - 1))
             last == s[Len(s)]
         IN IF \E i \in 1..Len(front) : front[i] = last THEN front ELSE Append(front, last)

\* variant: the namespaces are deduplicated
get_namespaces_unique(coll) ==
    LET results == get(coll)
    IN Unique([i \in 1..Len(results) |-> Val(results[i].metadatas[1]["namespace"])])

get_namespaces(coll) ==
    LET results == get(coll)
    IN [i \in 1..Len(results) |-> Val(results[i].metadatas[1]["namespace"])]

complete_metadata(memory_fragment, metadata) ==
    LET base == [EmptyDict EXCEPT !.owner = Some(memory_fragment.owner),
                                  !.namespace = Some(memory_fragment.namespace),
                                  !.timestamp = Some(memory_fragment.timestamp)]
    IN IF DictTruthy(metadata) THEN Update(base, Val(metadata)) ELSE base

register(coll, memory_fragment, metadata) ==
    add(coll, Document(memory_fragment.content, complete_metadata(memory_fragment, metadata)))

\* variant: the bounds are inclusive
search_where_inclusive(owner, timestamp_filter, namespace) ==
    LET base == <<Cond("namespace", "$eq", namespace), Cond("owner", "$eq", owner)>>
        gt == IF timestamp_filter # None /\ IntTruthy(Val(timestamp_filter).greater_than_value)
              THEN <<Cond("timestamp", "$gte", Val(Val(timestamp_filter).greater_than_value))>>
              ELSE <<>>
        lt == IF timestamp_filter # None /\ IntTruthy(Val(timestamp_filter).lower_than_value)
              THEN <<Cond("timestamp", "$lte", Val(Val(timestamp_filter).lower_than_value))>>
              ELSE <<>>
    IN [a \in {"$and"} |-> base \o gt \o lt]

\* the filter predicate of search
search_where(owner, timestamp_filter, namespace) ==
    LET base == <<Cond("namespace", "$eq", namespace), Cond("owner", "$eq", owner)>>
        gt == IF timestamp_filter # None /\ IntTruthy(Val(timestamp_filter).greater_than_value)
              THEN <<Cond("timestamp", "$gt", Val(Val(timestamp_filter).greater_than_value))>>
              ELSE <<>>
        lt == IF timestamp_filter # None /\ IntTruthy(Val(timestamp_filter).lower_than_value)
              THEN <<Cond("timestamp", "$lt", Val(Val(timestamp_filter).lower_than_value))>>
              ELSE <<>>
    IN [a \in {"$and"} |-> base \o gt \o lt]

\* result.get(key, [[]])[0]
ResultGet0(response, k) == IF response[k] # None THEN Val(response[k])[1] ELSE <<>>

\* the fragments and distances search builds from the engine's response
search_result(response) ==
    LET documents == ResultGet0(response, "documents")
        metadatas == ResultGet0(response, "metadatas")
        n == Min(Len(documents), Len(metadatas))
        fragments == [i \in 1..n |->
                        MemoryFragment(documents[i],
                                       Get(metadatas[i], "owner"),
                                       GetDefault(metadatas[i], "namespace", "default"),
                                       Get(metadatas[i], "timestamp"))]
    IN MemorySearchResult(fragments, [distances |-> ResultGet0(response, "distances")])

\* the namespace parameter of search defaults to "default"
NamespaceArg(namespace) == IF namespace = None THEN "default" ELSE Val(namespace)

search(coll, query_text, owner, limit, timestamp_filter, namespace, missing) ==
    search_result(query(coll, query_text, limit,
                        search_where(owner, timestamp_filter, NamespaceArg(namespace)),
                        missing))

\* ------------------------------------------------------------------- state
VARIABLES
    collection,   \* the engine's "long_term_memory" collection: records in insertion order
    registered,   \* the memory fragments registered on this store instance, in order
    replaced,     \* this instance has no registration yet and its construction
                  \* destroyed a non-empty collection
    lastOp,       \* the operation that ran last
    args,         \* the arguments of the last search
    missing,      \* the keys the engine's response to the last search lacked
    where,        \* the filter predicate the last search submitted
    hits,         \* the records the engine selected for the last search
    result,       \* the MemorySearchResult of the last search
    namespaces    \* the value of the last get_namespaces

vars == <<collection, registered, replaced, lastOp, args, missing, where, hits, result, namespaces>>

NoArgs == [query_text |-> "", owner |-> "", limit |-> 0, timestamp_filter |-> None, namespace |-> None]

NoWhere == [a \in {"$and"} |-> <<>>]

NoResult == MemorySearchResult(<<>>, [distances |-> <<>>])

NoSearch ==
    /\ args' = NoArgs
    /\ missing' = {}
    /\ where' = NoWhere
    /\ hits' = <<>>
    /\ result' = NoResult

Init ==
    /\ collection = LongTermMemory_init(<<>>)
    /\ registered = <<>>
    /\ replaced = FALSE
    /\ lastOp = "init"
    /\ args = NoArgs
    /\ missing = {}
    /\ where = NoWhere
    /\ hits = <<>>
    /\ result = NoResult
    /\ namespaces = <<>>

\* ----------------------------------------------------------------- actions
\* a new LongTermMemory is constructed on the same engine
Construct ==
    /\ collection' = LongTermMemory_init(collection)
    /\ registered' = <<>>
    /\ replaced' = (collection # <<>>)
    /\ lastOp' = "init"
    /\ namespaces' = <<>>
    /\ NoSearch

Register(fragments, metadatas) ==
    /\ Len(collection) < MaxRecords
    /\ \E memory_fragment \in fragments, metadata \in metadatas :
          /\ collection' = register(collection, memory_fragment, metadata)
          /\ registered' = Append(registered, memory_fragment)
    /\ lastOp' = "register"
    /\ replaced' = FALSE
    /\ namespaces' = <<>>
    /\ NoSearch

GetNamespaces ==
    /\ namespaces' = get_namespaces(collection)
    /\ lastOp' = "get_namespaces"
    /\ UNCHANGED <<collection, registered, replaced>>
    /\ NoSearch

Search(queries, owners, limits, filters, nss, faults) ==
    /\ \E query_text \in queries, owner \in owners, limit \in limits,
          timestamp_filter \in filters, namespace \in nss, lacking \in faults :
          LET w == search_where(owner, timestamp_filter, NamespaceArg(namespace))
          IN /\ args' = [query_text |-> query_text, owner |-> owner, limit |-> limit,
                         timestamp_filter |-> timestamp_filter, namespace |-> namespace]
             /\ missing' = lacking
             /\ where' = w
             /\ hits' = Neighbours(collection, query_text, limit, w)
             /\ result' = search(collection, query_text, owner, limit, timestamp_filter,
                                 namespace, lacking)
    /\ lastOp' = "search"
    /\ namespaces' = <<>>
    /\ UNCHANGED <<collection, registered, replaced>>

\* ------------------------------------------------ tenancy: owners, namespaces
TenantFragments == {MemoryFragment("hello", o, n, 1) : o \in Owners, n \in Namespaces}

ExtraMetadatas ==
    {None, Some(EmptyDict)}
    \cup {Some([EmptyDict EXCEPT !.owner = Some(o)]) : o \in Owners}
    \cup {Some([EmptyDict EXCEPT !.namespace = Some(n)]) : n \in Namespaces}
    \cup {Some([EmptyDict EXCEPT !.tag = Some(t)]) : t \in Tags}

RegisterTenant == Register(TenantFragments, ExtraMetadatas)

SearchTenant ==
    Search({"hello"}, Owners, 1..MaxLimit, {None}, {None} \cup {Some(n) : n \in Namespaces}, {{}})

Next == Construct \/ RegisterTenant \/ GetNamespaces \/ SearchTenant

Spec == Init /\ [][Next]_vars

\* ------------------------------------------------------- timestamp windows
TimedFragments == {MemoryFragment("hello", "A", "default", t) : t \in Timestamps}

TimedMetadatas == {None, Some([EmptyDict EXCEPT !.timestamp = Some(2)])}

Bounds == {None} \cup {Some(b) : b \in BoundValues}

Filters == {None} \cup {Some(TimestampFilter(g, l)) : g \in Bounds, l \in Bounds}

RegisterTimed == Register(TimedFragments, TimedMetadatas)

SearchTimed == Search({"hello"}, {"A"}, 1..MaxLimit, Filters, {None}, {{}})

NextTime == RegisterTimed \/ SearchTimed

SpecTime == Init /\ [][NextTime]_vars

\* ------------------------------------------------------- partial responses
PlainFragments == {MemoryFragment(c, "A", "default", 1) : c \in Contents}

RegisterPlain == Register(PlainFragments, {None})

SearchPartial == Search(Contents, {"A"}, 1..MaxLimit, {None}, {None}, SUBSET ResponseKeys)

NextResponse == RegisterPlain \/ SearchPartial

SpecResponse == Init /\ [][NextResponse]_vars

TypeOK ==
    /\ Len(collection) <= MaxRecords
    /\ Len(registered) = Len(collection)
    /\ lastOp \in {"init", "register", "get_namespaces", "search"}

\* ------------------------------------------------------------- properties
Returned == 1..Len(result.fragments)

Searched == lastOp = "search"

SearchedNamespace == NamespaceArg(args.namespace)

\* C1: a search for one owner never returns a fragment that was registered
\* with another owner
C1_OwnerIsolation ==
    Searched => \A i \in Returned : registered[hits[i]].owner = args.owner

\* C2: a search in namespace N (or "default" when the argument is omitted)
\* returns only fragments that were registered with namespace N
C2_NamespaceScoping ==
    Searched => \A i \in Returned : registered[hits[i]].namespace = SearchedNamespace

\* C3: with non-zero bounds, every returned fragment has a timestamp strictly
\* greater than greater_than_value and strictly less than lower_than_value,
\* for each bound that is set
C3_StrictBounds ==
    Searched /\ args.timestamp_filter # None =>
        LET tf == Val(args.timestamp_filter)
        IN \A i \in Returned :
              /\ (tf.greater_than_value # None /\ Val(tf.greater_than_value) # 0 =>
                     Val(result.fragments[i].timestamp) > Val(tf.greater_than_value))
              /\ (tf.lower_than_value # None /\ Val(tf.lower_than_value) # 0 =>
                     Val(result.fragments[i].timestamp) < Val(tf.lower_than_value))

\* a search with both bounds set returned a fragment and left out a record
\* whose timestamp equals a bound
C3_Witness ==
    /\ Searched
    /\ args.timestamp_filter # None
    /\ LET tf == Val(args.timestamp_filter)
       IN /\ IntTruthy(tf.greater_than_value)
          /\ IntTruthy(tf.lower_than_value)
          /\ Len(result.fragments) >= 1
          /\ \E j \in 1..Len(collection) :
                /\ collection[j].metadata.timestamp \in {tf.greater_than_value, tf.lower_than_value}
                /\ \A i \in 1..Len(hits) : hits[i] # j

\* C4: the returned result has as many fragments as distances
C4_ResultAlignment ==
    Searched => Len(result.fragments) = Len(result.metadata.distances)

\* C5: a registered fragment is returned by a search for its owner and
\* namespace with no timestamp filter and a limit that admits every record,
\* and the returned fragment has the registered content, owner, namespace and
\* timestamp
C5_RoundTrip ==
    Searched /\ missing = {} /\ args.timestamp_filter = None /\ args.limit >= Len(collection) =>
        \A j \in 1..Len(registered) :
            registered[j].owner = args.owner /\ registered[j].namespace = SearchedNamespace =>
                \E i \in Returned :
                    /\ result.fragments[i].content = registered[j].content
                    /\ result.fragments[i].owner = Some(registered[j].owner)
                    /\ result.fragments[i].namespace = registered[j].namespace
                    /\ result.fragments[i].timestamp = Some(registered[j].timestamp)

\* C6: the stored record's owner, namespace and timestamp are those of the
\* registered memory fragment, whatever the extra metadata
C6_ReservedKeysWin ==
    \A j \in 1..Len(collection) :
        /\ collection[j].metadata.owner = Some(registered[j].owner)
        /\ collection[j].metadata.namespace = Some(registered[j].namespace)
        /\ collection[j].metadata.timestamp = Some(registered[j].timestamp)

C8_FreshStoreEmpty ==
    Searched /\ registered = <<>> =>
        /\ result.fragments = <<>>
        /\ result.metadata.distances = <<>>

\* a search on an instance whose construction destroyed earlier records
C8_Witness ==
    /\ Searched
    /\ registered = <<>>
    /\ replaced

\* C9: when the response lacks a key, the returned result has zero fragments
\* and zero distances
C9_PartialResponseEmpty ==
    Searched /\ missing # {} =>
        /\ result.fragments = <<>>
        /\ result.metadata.distances = <<>>

HasCond(w, op) == \E i \in 1..Len(w["$and"]) : w["$and"][i].op = op

\* the last search submitted the predicate and returned the result of the
\* same search with timestamp_filter replaced by other
SameAsWith(other) ==
    /\ where = search_where(args.owner, other, SearchedNamespace)
    /\ result = search(collection, args.query_text, args.owner, args.limit, other,
                       args.namespace, missing)

====
